---- MODULE Spec2Model ----
(***************************************************************************)
(* The attendee-details form of microite-LA: the two variants of the form  *)
(* component (src/src/components/data.vue with a free-text hospital input, *)
(* src/unnamed/part_000 with a hospital selector), and the Pinia store     *)
(* (src/unnamed/part_002) whose flags and requests handleSubmit drives.    *)
(*                                                                         *)
(* JavaScript strings are TLA+ strings; TLC evaluates Len, SubSeq and \o   *)
(* on them, so a character is the one-character string SubSeq(s, i, i).    *)
(***************************************************************************)
EXTENDS Naturals, Sequences, FiniteSets, TLC

VARIABLES
    component,  \* which variant of the form is mounted
    formData,   \* ref formData: the six field values
    errors,     \* ref errors: Record<string, string>, a function on a set of keys
    openModal,  \* ref openModal: a field name, or null
    store,      \* the app store's view flags
    network,    \* the requests fetch has issued, in order, with their outcome
    trace,      \* the effects of handleSubmit in the order the statements ran
    lastOp,     \* the handler that ran last, its field, and openModal before it
    call,       \* a direct call of validateField: its arguments and its result
    twin,       \* the part_000 form given the same user input as a data.vue form
    page        \* main.ts: the scroll offsets of the page, and the listener that ran last

vars == <<component, formData, errors, openModal, store, network, trace, lastOp, call, twin, page>>

----------------------------------------------------------------------------
(* Strings *)

null == "null"

Ch(s, i) == SubSeq(s, i, i)

Chars(s) == {Ch(s, i) : i \in 1..Len(s)}

\* The characters String.prototype.trim removes and the regexp class \s
\* matches (the ones a model string can hold).
WhiteSpace == {" ", "\t", "\n", "\r", "\f"}

LowerLetters == "abcdefghijklmnopqrstuvwxyz"
UpperLetters == "ABCDEFGHIJKLMNOPQRSTUVWXYZ"

LowerSet == Chars(LowerLetters)
UpperSet == Chars(UpperLetters)

Letters == LowerSet \cup UpperSet

\* the letter at the same place of the other alphabet
Counterpart(from, to) ==
    [c \in Chars(from) |-> Ch(to, CHOOSE i \in 1..Len(from) : Ch(from, i) = c)]

LowerOf == Counterpart(UpperLetters, LowerLetters)
UpperOf == Counterpart(LowerLetters, UpperLetters)

toLowerChar(c) == IF c \in UpperSet THEN LowerOf[c] ELSE c

toUpperChar(c) == IF c \in LowerSet THEN UpperOf[c] ELSE c

RECURSIVE toLowerCase(_)
toLowerCase(s) ==
    IF s = "" THEN "" ELSE toLowerChar(Ch(s, 1)) \o toLowerCase(SubSeq(s, 2, Len(s)))

RECURSIVE toUpperCase(_)
toUpperCase(s) ==
    IF s = "" THEN "" ELSE toUpperChar(Ch(s, 1)) \o toUpperCase(SubSeq(s, 2, Len(s)))

RECURSIVE trimStart(_)
trimStart(s) ==
    IF s # "" /\ Ch(s, 1) \in WhiteSpace THEN trimStart(SubSeq(s, 2, Len(s))) ELSE s

RECURSIVE trimEnd(_)
trimEnd(s) ==
    IF s # "" /\ Ch(s, Len(s)) \in WhiteSpace THEN trimEnd(SubSeq(s, 1, Len(s) - 1)) ELSE s

trim(s) == trimEnd(trimStart(s))

endsWith(s, suffix) ==
    /\ Len(suffix) <= Len(s)
    /\ SubSeq(s, Len(s) - Len(suffix) + 1, Len(s)) = suffix

\* Array.prototype.includes on an array of strings
includes(array, s) == \E i \in 1..Len(array) : array[i] = s

----------------------------------------------------------------------------
(* The validators *)

sizeOptions == <<"XS", "S", "M", "L", "XL", "XXL">>

hospitalOptions ==
    << "Cedars-Sinai Medical Center (Beverly Hills)",
       "Huntington Health | Pasadena",
       "Cedar-Sinai Marina del Rey",
       "Torrance Memorial Medical Center",
       "Providence Cedars-Sinai Tarzana Medical Center" >>

\* s[a..b] is one or more characters, none of them whitespace or '@': [^\s@]+
NoSpaceNoAt(s, a, b) ==
    /\ a <= b
    /\ \A k \in a..b : Ch(s, k) \notin WhiteSpace /\ Ch(s, k) # "@"

\* the local part read with the class [^\s@.]: no dot before the '@'
validateEmail_noDotInLocal(email) ==
    \E i \in 1..Len(email) :
        /\ Ch(email, i) = "@"
        /\ NoSpaceNoAt(email, 1, i - 1)
        /\ \A k \in 1..(i - 1) : Ch(email, k) # "."
        /\ \E j \in (i + 1)..Len(email) :
              /\ Ch(email, j) = "."
              /\ NoSpaceNoAt(email, i + 1, j - 1)
              /\ NoSpaceNoAt(email, j + 1, Len(email))

\* /^[^\s@]+@[^\s@]+\.[^\s@]+$/.test(email)
validateEmail(email) ==
    \E i \in 1..Len(email) :
        /\ Ch(email, i) = "@"
        /\ NoSpaceNoAt(email, 1, i - 1)
        /\ \E j \in (i + 1)..Len(email) :
              /\ Ch(email, j) = "."
              /\ NoSpaceNoAt(email, i + 1, j - 1)
              /\ NoSpaceNoAt(email, j + 1, Len(email))

\* the suffix test reduced to the top-level domain
validateCedarsEmail_anyCom(email) == endsWith(toLowerCase(email), ".com")

\* the suffix compared without lower-casing the address first
validateCedarsEmail_caseSensitive(email) == endsWith(email, "@cedars.com")

validateCedarsEmail(email) == endsWith(toLowerCase(email), "@cedars.com")

\* /^[a-zA-Z\s'-]+$/.test(value)
NameClass == Letters \cup WhiteSpace \cup {"'", "-"}

\* the class without the apostrophe
NameChars_noApostrophe(value) ==
    /\ value # ""
    /\ \A k \in 1..Len(value) : Ch(value, k) \in Letters \cup WhiteSpace \cup {"-"}

NameChars(value) ==
    /\ value # ""
    /\ \A k \in 1..Len(value) : Ch(value, k) \in NameClass

\* only the falsy test, without the trim
IsBlank_noTrim(value) == value = ""

\* !value || value.trim() === ''
IsBlank(value) == value = "" \/ trim(value) = ""

\* value.trim().length < 2
TooShort(value) == Len(trim(value)) < 2

\* the value compared with the first option only
HospitalListed_firstOnly(value) == trim(value) = hospitalOptions[1]

\* the value looked up untrimmed
HospitalListed_noTrim(value) == includes(hospitalOptions, value)

\* hospitalOptions.includes(value.trim())
HospitalListed(value) == includes(hospitalOptions, trim(value))

\* the value looked up without the upper-casing
SizeListed_caseSensitive(value) == includes(sizeOptions, trim(value))

\* sizeOptions.includes(value.trim().toUpperCase())
SizeListed(value) == includes(sizeOptions, toUpperCase(trim(value)))

\* validateField of src/unnamed/part_000: the hospital is one of hospitalOptions
validateField_part000(fieldName, value) ==
    IF IsBlank(value) THEN fieldName \o " is required"
    ELSE CASE fieldName = "EMPLOYEE WORK EMAIL" ->
                IF ~validateEmail(value) THEN "Please enter a valid email address"
                ELSE IF ~validateCedarsEmail(value) THEN "Only cedars.com emails are eligible"
                ELSE ""
           [] fieldName \in {"FIRST NAME", "LAST NAME"} ->
                IF TooShort(value) THEN fieldName \o " must be at least 2 characters"
                ELSE IF ~NameChars(value)
                     THEN fieldName \o " can only contain letters, spaces, hyphens, and apostrophes"
                ELSE ""
           [] fieldName = "HOSPITAL" ->
                IF ~HospitalListed(value) THEN "Please select a valid hospital"
                ELSE ""
           [] fieldName \in {"SHIRT SIZE", "JACKET SIZE"} ->
                IF ~SizeListed(value)
                THEN "Please select a valid size"
                ELSE ""
           [] OTHER -> ""

\* validateField of src/src/components/data.vue: the hospital is free text
validateField_data(fieldName, value) ==
    IF IsBlank(value) THEN fieldName \o " is required"
    ELSE CASE fieldName = "EMPLOYEE WORK EMAIL" ->
                IF ~validateEmail(value) THEN "Please enter a valid email address"
                ELSE IF ~validateCedarsEmail(value) THEN "Only cedars.com emails are eligible"
                ELSE ""
           [] fieldName \in {"FIRST NAME", "LAST NAME"} ->
                IF TooShort(value) THEN fieldName \o " must be at least 2 characters"
                ELSE IF ~NameChars(value)
                     THEN fieldName \o " can only contain letters, spaces, hyphens, and apostrophes"
                ELSE ""
           [] fieldName = "HOSPITAL" ->
                IF TooShort(value) THEN "Hospital name must be at least 2 characters"
                ELSE ""
           [] fieldName \in {"SHIRT SIZE", "JACKET SIZE"} ->
                IF ~SizeListed(value)
                THEN "Please select a valid size"
                ELSE ""
           [] OTHER -> ""

Components == {"data", "part000"}

\* validateField of the mounted variant
validateField(c, fieldName, value) ==
    IF c = "data" THEN validateField_data(fieldName, value)
    ELSE validateField_part000(fieldName, value)

----------------------------------------------------------------------------
(* The form component *)

\* the fields array of validateForm, in its order
fields ==
    << [key |-> "firstName",  label |-> "FIRST NAME"],
       [key |-> "lastName",   label |-> "LAST NAME"],
       [key |-> "hospital",   label |-> "HOSPITAL"],
       [key |-> "email",      label |-> "EMPLOYEE WORK EMAIL"],
       [key |-> "shirtSize",  label |-> "SHIRT SIZE"],
       [key |-> "jacketSize", label |-> "JACKET SIZE"] >>

Keys == {fields[i].key : i \in 1..Len(fields)}

Labels == {fields[i].label : i \in 1..Len(fields)}

LabelOf(key) == fields[CHOOSE i \in 1..Len(fields) : fields[i].key = key].label

NoErrors == [k \in {} |-> ""]

\* errors.value[key] = error
SetError(errs, key, error) ==
    [k \in DOMAIN errs \cup {key} |-> IF k = key THEN error ELSE errs[k]]

\* delete errors.value[fieldName]
DeleteError(errs, fieldName) == [k \in DOMAIN errs \ {fieldName} |-> errs[k]]

\* the loop left at the first field in error
RECURSIVE validateFormFrom_firstOnly(_, _, _, _)
validateFormFrom_firstOnly(c, fd, i, acc) ==
    IF i > Len(fields) THEN acc
    ELSE LET error == validateField(c, fields[i].label, fd[fields[i].key])
         IN  IF error # ""
             THEN [errors |-> SetError(acc.errors, fields[i].key, error), isValid |-> FALSE]
             ELSE validateFormFrom_firstOnly(c, fd, i + 1, acc)

\* fields.forEach of validateForm from index i on: acc is <<errors, isValid>> so far
RECURSIVE validateFormFrom(_, _, _, _)
validateFormFrom(c, fd, i, acc) ==
    IF i > Len(fields) THEN acc
    ELSE LET error == validateField(c, fields[i].label, fd[fields[i].key])
         IN  validateFormFrom(c, fd, i + 1,
                 IF error # ""
                 THEN [errors |-> SetError(acc.errors, fields[i].key, error),
                       isValid |-> FALSE]
                 ELSE acc)

\* isValid never cleared
validateForm_alwaysValid(c, fd) ==
    [errors |-> validateFormFrom(c, fd, 1, [errors |-> NoErrors, isValid |-> TRUE]).errors,
     isValid |-> TRUE]

\* the validateForm that leaves the first field out
validateForm_fromSecond(c, fd) == validateFormFrom(c, fd, 2, [errors |-> NoErrors, isValid |-> TRUE])

\* validateForm: the new errors.value and the boolean it returns
validateForm(c, fd) == validateFormFrom(c, fd, 1, [errors |-> NoErrors, isValid |-> TRUE])

\* the handleInput that empties the whole map
handleInput_clearAll(errs, fieldName) ==
    IF fieldName \in DOMAIN errs /\ errs[fieldName] # ""
    THEN NoErrors
    ELSE errs

\* handleInput: the new errors.value
handleInput(errs, fieldName) ==
    IF fieldName \in DOMAIN errs /\ errs[fieldName] # ""
    THEN DeleteError(errs, fieldName)
    ELSE errs

----------------------------------------------------------------------------
(* The store *)

getAppsScriptUrl ==
    "https://script.google.com/macros/s/AKfycbxrzN4tG_NRt8MUZy0H7-I9U4LTsJRg5yf2lPw7NQbAWYYUpDK4MHVNh8dKLL287b_g/exec"

getAppsScriptUrlForm ==
    "https://script.google.com/macros/s/AKfycbz-_ewtYzykpgohJ2SVh2gL5Y1_j5dKgxiaPormY-x140to43MsyueJacr4lAO9JSrXtA/exec"

NoBody == <<>>

\* sendAnalyticsData: the request fetch(url + "?type=" + event) issues
sendAnalyticsData(event) ==
    [method |-> "GET", url |-> getAppsScriptUrl \o "?type=" \o event,
     body |-> NoBody, status |-> "pending"]

\* sendFormData: the request fetch(url, {method: 'POST', body: form}) issues,
\* the body being the FormData entries in the order of the appends
sendFormData(firstName, lastName, email, hospital, shirtsize, jacketsize) ==
    [method |-> "POST", url |-> getAppsScriptUrlForm,
     body |-> << <<"FirstName", firstName>>, <<"LastName", lastName>>,
                 <<"Email", email>>, <<"Hospital", hospital>>,
                 <<"ShirtSize", shirtsize>>, <<"JacketSize", jacketsize>> >>,
     status |-> "pending"]

\* the form is on screen while the store's showdata flag is set
Mounted == store.showdata

\* another screen of the application opens the form
showDataView ==
    /\ store.showhome
    /\ store' = [store EXCEPT !.showhome = FALSE, !.showdata = TRUE]
    /\ lastOp' = [op |-> "showDataView", field |-> "", was |-> openModal]
    /\ UNCHANGED <<component, formData, errors, openModal, network, trace, call>>

\* a rejected POST handled by going back to the form
fetchSettles_revertOnFailure(i, outcome) ==
    /\ i \in 1..Len(network)
    /\ network[i].status = "pending"
    /\ network' = [network EXCEPT ![i].status = outcome]
    /\ store' = IF outcome = "rejected" /\ network[i].method = "POST"
                THEN [store EXCEPT !.showdata = TRUE, !.showfinal = FALSE]
                ELSE store
    /\ lastOp' = [op |-> "fetchSettles", field |-> "", was |-> openModal]
    /\ UNCHANGED <<component, formData, errors, openModal, trace, call>>

\* a rejected request sent once more
fetchSettles_retry(i, outcome) ==
    /\ i \in 1..Len(network)
    /\ network[i].status = "pending"
    /\ network' = IF outcome = "rejected" /\ Len(network) < 4
                  THEN Append([network EXCEPT ![i].status = outcome], network[i])
                  ELSE [network EXCEPT ![i].status = outcome]
    /\ lastOp' = [op |-> "fetchSettles", field |-> "", was |-> openModal]
    /\ UNCHANGED <<component, formData, errors, openModal, store, trace, call>>

\* a fetch promise settles; nothing awaits the analytics one and sendFormData
\* ends after its await, so no state of the form or the store changes
fetchSettles(i, outcome) ==
    /\ i \in 1..Len(network)
    /\ network[i].status = "pending"
    /\ network' = [network EXCEPT ![i].status = outcome]
    /\ lastOp' = [op |-> "fetchSettles", field |-> "", was |-> openModal]
    /\ UNCHANGED <<component, formData, errors, openModal, store, trace, call>>

----------------------------------------------------------------------------
(* The handlers of the form *)

NoCall == [fieldName |-> "", value |-> "", returned |-> FALSE, error |-> ""]

\* the hospital a text input in both variants
TextInputs_hospitalTyped(c) == {"firstName", "lastName", "hospital", "email"}

\* the fields with an <input v-model>, and the fields with a selector
TextInputs(c) ==
    IF c = "data" THEN {"firstName", "lastName", "hospital", "email"}
    ELSE {"firstName", "lastName", "email"}

Selectors(c) ==
    IF c = "data" THEN {"shirtSize", "jacketSize"}
    ELSE {"shirtSize", "jacketSize", "hospital"}

\* the v-for list of the selector of a field
OptionsOf(fieldName) == IF fieldName = "hospital" THEN hospitalOptions ELSE sizeOptions

\* the input that validates the field as it is edited
input_validating(key, v) ==
    /\ Mounted
    /\ key \in TextInputs(component)
    /\ formData' = [formData EXCEPT ![key] = v]
    /\ errors' = IF validateField(component, LabelOf(key), v) = ""
                 THEN handleInput(errors, key)
                 ELSE SetError(errors, key, validateField(component, LabelOf(key), v))
    /\ lastOp' = [op |-> "input", field |-> key, was |-> openModal]
    /\ UNCHANGED <<component, openModal, store, network, trace, call>>

\* v-model writes the field, then @input="handleInput(key)"
input(key, v) ==
    /\ Mounted
    /\ key \in TextInputs(component)
    /\ formData' = [formData EXCEPT ![key] = v]
    /\ errors' = handleInput(errors, key)
    /\ lastOp' = [op |-> "input", field |-> key, was |-> openModal]
    /\ UNCHANGED <<component, openModal, store, network, trace, call>>

\* the toggle that only ever opens
toggleModal_openOnly(fieldName) ==
    /\ Mounted
    /\ fieldName \in Selectors(component)
    /\ openModal' = fieldName
    /\ lastOp' = [op |-> "toggleModal", field |-> fieldName, was |-> openModal]
    /\ UNCHANGED <<component, formData, errors, store, network, trace, call>>

\* any open selector closed by the toggle of another field
toggleModal_closeAny(fieldName) ==
    /\ Mounted
    /\ fieldName \in Selectors(component)
    /\ openModal' = IF openModal # null THEN null ELSE fieldName
    /\ lastOp' = [op |-> "toggleModal", field |-> fieldName, was |-> openModal]
    /\ UNCHANGED <<component, formData, errors, store, network, trace, call>>

toggleModal(fieldName) ==
    /\ Mounted
    /\ fieldName \in Selectors(component)
    /\ openModal' = IF openModal = fieldName THEN null ELSE fieldName
    /\ lastOp' = [op |-> "toggleModal", field |-> fieldName, was |-> openModal]
    /\ UNCHANGED <<component, formData, errors, store, network, trace, call>>

\* a closeModal that leaves the ref as it is
closeModal_noop == openModal

\* closeModal: the new openModal.value
closeModal == null

\* the selection without the handleInput call
selectOption_keepError(fieldName, value) ==
    /\ Mounted
    /\ fieldName \in Selectors(component)
    /\ openModal = fieldName
    /\ formData' = [formData EXCEPT ![fieldName] = value]
    /\ openModal' = null
    /\ lastOp' = [op |-> "selectOption", field |-> fieldName, was |-> openModal]
    /\ UNCHANGED <<component, errors, store, network, trace, call>>

\* the option buttons of a field are rendered while its selector is open
selectOption(fieldName, value) ==
    /\ Mounted
    /\ fieldName \in Selectors(component)
    /\ openModal = fieldName
    /\ formData' = [formData EXCEPT ![fieldName] = value]
    /\ openModal' = null
    /\ errors' = handleInput(errors, fieldName)
    /\ lastOp' = [op |-> "selectOption", field |-> fieldName, was |-> openModal]
    /\ UNCHANGED <<component, store, network, trace, call>>

\* a click or touchend the backdrop of the open selector receives; onBackdrop:
\* the target is the backdrop itself or has the class modal-backdrop
handleBackdropClick(onBackdrop) ==
    /\ Mounted
    /\ openModal # null
    /\ openModal' = IF onBackdrop THEN closeModal ELSE openModal
    /\ lastOp' = [op |-> "handleBackdropClick", field |-> "", was |-> openModal]
    /\ UNCHANGED <<component, formData, errors, store, network, trace, call>>

\* the document's keydown listener
handleEscape(key) ==
    /\ Mounted
    /\ openModal' = IF key = "Escape" THEN closeModal ELSE openModal
    /\ lastOp' = [op |-> "handleEscape", field |-> key, was |-> openModal]
    /\ UNCHANGED <<component, formData, errors, store, network, trace, call>>

\* the requests sent before the flags are written
SubmitValid_sendFirst ==
    /\ store' = [store EXCEPT !.showdata = FALSE, !.showfinal = TRUE]
    /\ network' = network \o
          << sendAnalyticsData("submitbtn"),
             sendFormData(formData.firstName, formData.lastName, formData.email,
                          formData.hospital, formData.shirtSize, formData.jacketSize) >>
    /\ trace' = trace \o <<"sendAnalyticsData", "sendFormData", "showdata", "showfinal">>

\* the arguments of sendFormData passed in the order of the form's fields
SubmitValid_swapped ==
    /\ store' = [store EXCEPT !.showdata = FALSE, !.showfinal = TRUE]
    /\ network' = network \o
          << sendAnalyticsData("submitbtn"),
             sendFormData(formData.firstName, formData.lastName, formData.hospital,
                          formData.email, formData.shirtSize, formData.jacketSize) >>
    /\ trace' = trace \o <<"showdata", "showfinal", "sendAnalyticsData", "sendFormData">>

\* the statements of handleSubmit after validateForm() returned true, in order
SubmitValid ==
    /\ store' = [store EXCEPT !.showdata = FALSE, !.showfinal = TRUE]
    /\ network' = network \o
          << sendAnalyticsData("submitbtn"),
             sendFormData(formData.firstName, formData.lastName, formData.email,
                          formData.hospital, formData.shirtSize, formData.jacketSize) >>
    /\ trace' = trace \o <<"showdata", "showfinal", "sendAnalyticsData", "sendFormData">>

handleSubmit ==
    /\ Mounted
    /\ LET v == validateForm(component, formData)
       IN  /\ errors' = v.errors
           /\ IF v.isValid THEN SubmitValid
              ELSE UNCHANGED <<store, network, trace>>
    /\ lastOp' = [op |-> "handleSubmit", field |-> "", was |-> openModal]
    /\ UNCHANGED <<component, formData, openModal, call>>

----------------------------------------------------------------------------
(* The form as a state machine *)

\* how many of a selector's options, from the first, the user picks among
MaxSizeIdx == 1
MaxHospIdx == 2

Min(a, b) == IF a <= b THEN a ELSE b

Picked(fieldName) ==
    LET options == OptionsOf(fieldName)
        n == IF fieldName = "hospital" THEN MaxHospIdx ELSE MaxSizeIdx
    IN  {options[i] : i \in 1..Min(n, Len(options))}

\* what the user types or pastes into a text input
Typed(key) ==
    CASE key = "firstName" -> {"", " ", "A", "Al"}
      [] key = "lastName"  -> {"", "Bo"}
      [] key = "email"     -> {"", "a@gmail.com", "a@cedars.com"}
      [] key = "hospital"  -> {"", "H", hospitalOptions[1]}

PressedKeys == {"Escape", "Tab"}

Outcomes == {"fulfilled", "rejected"}

\* the page as the browser loads it: nothing scrolled
NewPage ==
    [scrollY |-> 0, documentElement |-> 0, body |-> 0, dropdown |-> 0,
     last |-> "init", target |-> "", was |-> FALSE]

\* the refs and the store of a form that has just been set up
NewForm ==
    [formData |-> [k \in Keys |-> ""], errors |-> NoErrors, openModal |-> null,
     store |-> [showhome |-> TRUE, showdata |-> FALSE, showfinal |-> FALSE],
     network |-> <<>>, error |-> ""]

InitForm ==
    /\ formData = NewForm.formData
    /\ errors = NewForm.errors
    /\ openModal = NewForm.openModal
    /\ store = NewForm.store
    /\ network = NewForm.network
    /\ trace = <<>>
    /\ lastOp = [op |-> "init", field |-> "", was |-> null]
    /\ twin = NewForm
    /\ page = NewPage

Init ==
    /\ component \in Components
    /\ InitForm
    /\ call = NoCall

Next ==
    \/ showDataView /\ UNCHANGED <<twin, page>>
    \/ \E key \in TextInputs(component) : \E v \in Typed(key) :
          input(key, v) /\ UNCHANGED <<twin, page>>
    \/ \E fieldName \in Selectors(component) : toggleModal(fieldName) /\ UNCHANGED <<twin, page>>
    \/ \E fieldName \in Selectors(component) :
          \E value \in Picked(fieldName) : selectOption(fieldName, value) /\ UNCHANGED <<twin, page>>
    \/ \E onBackdrop \in BOOLEAN : handleBackdropClick(onBackdrop) /\ UNCHANGED <<twin, page>>
    \/ \E key \in PressedKeys : handleEscape(key) /\ UNCHANGED <<twin, page>>
    \/ handleSubmit /\ UNCHANGED <<twin, page>>
    \/ \E i \in 1..Len(network) : \E outcome \in Outcomes :
          fetchSettles(i, outcome) /\ UNCHANGED <<twin, page>>

Spec == Init /\ [][Next]_vars

----------------------------------------------------------------------------
(* validateField on its own: one call with arguments drawn from Strings *)

\* the longest string the exhaustive part of Strings holds
MaxLen == 3

Alphabet == {"a", "Z", "1", " ", "\t", "-", "'", "@", "."}

RECURSIVE StringsUpTo(_)
StringsUpTo(n) ==
    IF n = 0 THEN {""}
    ELSE LET shorter == StringsUpTo(n - 1)
         IN  shorter \cup {s \o c : s \in shorter, c \in Alphabet}

Pads == {"", " "}

Padded(S) == {p \o s \o q : p \in Pads, s \in S, q \in Pads}

Pieces == {"", "a", ".", " ", "a@", "a.b"}

EmailShapes ==
    {l \o at \o d \o dot \o t :
        l \in Pieces, at \in {"@", ""}, d \in Pieces, dot \in {".", ""}, t \in Pieces}

EmailSamples ==
    Padded({l \o d : l \in {"", "a", "jane.doe", "a b"},
                    d \in {"@cedars.com", "@CEDARS.COM", "@Cedars.Com", "@gmail.com",
                           "@cedars", "cedars.com", "@cedars.com.au", "@x.cedars.com",
                           "@cedars.com@cedars.com"}})

NameSamples ==
    Padded({"Mary-Jane O'Brien", "Jane", "Doe", "O'Brien", "Anne Marie", "J4ne",
            "Jane_Doe", "Jane!", "Jane\tDoe", "--", "J"})

HospitalSamples ==
    Padded({hospitalOptions[i] : i \in 1..Len(hospitalOptions)}
           \cup {toLowerCase(hospitalOptions[1]), "Cedars-Sinai", "General Hospital", "H"})

SizeSamples ==
    Padded({sizeOptions[i] : i \in 1..Len(sizeOptions)}
           \cup {toLowerCase(sizeOptions[i]) : i \in 1..Len(sizeOptions)}
           \cup {"Xl", "xS", "XXXL", "X L", "medium", "0"})

Strings ==
    StringsUpTo(MaxLen) \cup EmailShapes \cup EmailSamples \cup NameSamples
        \cup HospitalSamples \cup SizeSamples

\* const error = validateField(label, value)
validateFieldCall ==
    /\ call.fieldName \in Labels
    /\ ~call.returned
    /\ call' = [call EXCEPT !.returned = TRUE,
                            !.error = validateField(component, call.fieldName, call.value)]
    /\ UNCHANGED <<component, formData, errors, openModal, store, network, trace, lastOp>>

InitValidate ==
    /\ component \in Components
    /\ InitForm
    /\ call \in [fieldName : Labels, value : Strings, returned : {FALSE}, error : {""}]

NextValidate == validateFieldCall /\ UNCHANGED <<twin, page>>

SpecValidate == InitValidate /\ [][NextValidate]_vars

----------------------------------------------------------------------------
(* Properties of validateField *)

EmailLabel == "EMPLOYEE WORK EMAIL"
NameLabels == {"FIRST NAME", "LAST NAME"}
HospitalLabel == "HOSPITAL"
SizeLabels == {"SHIRT SIZE", "JACKET SIZE"}

\* empty, or whitespace from end to end
OnlyWhitespace(s) == \A i \in 1..Len(s) : Ch(s, i) \in WhiteSpace

\* local@domain.tld: no whitespace, one '@' that is not the first character,
\* and after it a '.' with at least one character on each side
HasEmailShape(s) ==
    LET ats == {i \in 1..Len(s) : Ch(s, i) = "@"}
    IN  /\ \A i \in 1..Len(s) : Ch(s, i) \notin WhiteSpace
        /\ Cardinality(ats) = 1
        /\ \A i \in ats :
              /\ i > 1
              /\ \E j \in (i + 2)..(Len(s) - 1) : Ch(s, j) = "."

SameIgnoringCase(s, t) ==
    /\ Len(s) = Len(t)
    /\ \A i \in 1..Len(s) : toLowerChar(Ch(s, i)) = toLowerChar(Ch(t, i))

EndsIgnoringCase(s, suffix) ==
    /\ Len(suffix) <= Len(s)
    /\ SameIgnoringCase(SubSeq(s, Len(s) - Len(suffix) + 1, Len(s)), suffix)

Returned(labels) == call.returned /\ call.fieldName \in labels

\* C5 as stated: for the email field, a value that is not blank gets the
\* malformed-address message when it lacks the local@domain.tld shape, the
\* eligibility message when it has the shape and does not end with the suffix
\* "@cedars.com" as written, and no error when it has the shape and ends with
\* the suffix.
C5_EmailSuffixAsWritten ==
    (Returned({EmailLabel}) /\ ~OnlyWhitespace(call.value)) =>
        call.error =
            IF ~HasEmailShape(call.value) THEN "Please enter a valid email address"
            ELSE IF ~endsWith(call.value, "@cedars.com")
                 THEN "Only cedars.com emails are eligible"
            ELSE ""

\* C5 amended: the same three outcomes, the suffix "@cedars.com" being compared
\* without regard to letter case; the shape is tested first, so each value that
\* is not blank gets exactly one of the three.
C5_EmailOutcomes ==
    (Returned({EmailLabel}) /\ ~OnlyWhitespace(call.value)) =>
        call.error =
            IF ~HasEmailShape(call.value) THEN "Please enter a valid email address"
            ELSE IF ~EndsIgnoringCase(call.value, "@cedars.com")
                 THEN "Only cedars.com emails are eligible"
            ELSE ""

\* an address in capitals that the validator accepts
C5_Witness ==
    /\ Returned({EmailLabel})
    /\ call.value = "jane.doe@CEDARS.COM"
    /\ call.error = ""

\* C6: a first or last name is accepted exactly when it has at least 2
\* characters after trimming and each of its characters is a letter a-z or A-Z,
\* a space (any whitespace character), a hyphen or an apostrophe; a digit or
\* another symbol rejects it, and "Mary-Jane O'Brien" is accepted.
C6_NameRule ==
    Returned(NameLabels) =>
        /\ call.error = "" <=>
              /\ Len(trim(call.value)) >= 2
              /\ \A i \in 1..Len(call.value) :
                    Ch(call.value, i) \in Letters \cup WhiteSpace \cup {"-", "'"}
        /\ (\E i \in 1..Len(call.value) : Ch(call.value, i) \in {"1", "4", "_", "!", "@", "."})
              => call.error # ""
        /\ call.value = "Mary-Jane O'Brien" => call.error = ""

C6_Witness ==
    /\ Returned(NameLabels)
    /\ call.value = "Mary-Jane O'Brien"
    /\ call.error = ""

\* C7: a hospital value that is not blank is valid, in the variant with the
\* selector, exactly when its trimmed value is one of the five hospitalOptions
\* (else 'Please select a valid hospital') and, in the free-text variant, exactly
\* when its trimmed length is at least 2 (else 'Hospital name must be at least 2
\* characters').
C7_HospitalRule ==
    (Returned({HospitalLabel}) /\ ~OnlyWhitespace(call.value)) =>
        IF component = "part000"
        THEN call.error =
                IF \E i \in 1..5 : trim(call.value) = hospitalOptions[i] THEN ""
                ELSE "Please select a valid hospital"
        ELSE call.error =
                IF Len(trim(call.value)) >= 2 THEN ""
                ELSE "Hospital name must be at least 2 characters"

\* a name off the list: accepted as free text, rejected by the closed set
C7_Witness ==
    /\ Returned({HospitalLabel})
    /\ call.value = "General Hospital"
    /\ component = "part000"
    /\ call.error = "Please select a valid hospital"

\* C8: a shirt or jacket size that is not blank is valid exactly when, trimmed
\* and letter case ignored, it is one of XS, S, M, L, XL, XXL; any other value
\* gets 'Please select a valid size'.
C8_SizeRule ==
    (Returned(SizeLabels) /\ ~OnlyWhitespace(call.value)) =>
        call.error =
            IF \E t \in {"XS", "S", "M", "L", "XL", "XXL"} :
                  SameIgnoringCase(trim(call.value), t)
            THEN ""
            ELSE "Please select a valid size"

C8_Witness ==
    /\ Returned(SizeLabels)
    /\ call.value = " xl "
    /\ call.error = ""

----------------------------------------------------------------------------
(* Properties of the form *)

FieldValid(i) == validateField(component, fields[i].label, formData[fields[i].key]) = ""

AllValid == \A i \in 1..Len(fields) : FieldValid(i)

\* a step that sends a request or shows the completion view
Proceeds ==
    \/ Len(network') > Len(network)
    \/ Len(trace') > Len(trace)
    \/ store'.showfinal /\ ~store.showfinal

\* C1: in both variants a step proceeds with the submission (sends a request,
\* sets the view flags) only if validateForm leaves the error map empty, that
\* is, each of the six values passes validateField at that moment.
C1_SubmitOnlyWhenValid ==
    [][Proceeds => (AllValid /\ errors' = NoErrors)]_vars

\* a submission that went through after the form had been corrected
C1_Witness ==
    /\ lastOp.op = "handleSubmit"
    /\ store.showfinal
    /\ Len(network) = 2
    /\ errors = NoErrors
    /\ formData.email = "a@cedars.com"

\* C2: a handleSubmit while a field fails validation sends nothing, leaves the
\* store flags, the field values and the open selector as they were, and leaves
\* an entry in the error map for each failing field.
C2_InvalidSubmitAborts ==
    [][(lastOp'.op = "handleSubmit" /\ ~AllValid) =>
          /\ network' = network
          /\ trace' = trace
          /\ store' = store
          /\ formData' = formData
          /\ openModal' = openModal
          /\ \A i \in 1..Len(fields) :
                ~FieldValid(i) =>
                    /\ fields[i].key \in DOMAIN errors'
                    /\ errors'[fields[i].key] # ""]_vars

\* an aborted submit with a selector open, a valid field and two failing ones
C2_Witness ==
    /\ lastOp.op = "handleSubmit"
    /\ {"email", "jacketSize"} \subseteq DOMAIN errors
    /\ "firstName" \notin DOMAIN errors
    /\ formData.firstName = "Al"
    /\ openModal = "shirtSize"
    /\ network = <<>>
    /\ store.showdata /\ ~store.showfinal

Precedes(a, b) ==
    \E i, j \in 1..Len(trace) : i < j /\ trace[i] = a /\ trace[j] = b

ValidSubmitDone == lastOp.op = "handleSubmit" /\ errors = NoErrors

BlankSamples == {"", " ", "  ", "\t", " \t", "\n", "\t \n"}

\* C4: for each of the six fields an empty or whitespace-only value gets
\* '<label> is required' from validateField, whatever the field's own rule,
\* and a submit in that state is blocked with that message under the field's
\* key in the error map.
C4_RequiredBlocksSubmit ==
    /\ \A label \in Labels : \A s \in BlankSamples :
          validateField(component, label, s) = label \o " is required"
    /\ lastOp.op = "handleSubmit" =>
          \A i \in 1..Len(fields) :
              OnlyWhitespace(formData[fields[i].key]) =>
                  /\ fields[i].key \in DOMAIN errors
                  /\ errors[fields[i].key] = fields[i].label \o " is required"
                  /\ network = <<>>
                  /\ store.showdata /\ ~store.showfinal

\* a submit blocked by a first name of one space, the other text fields valid
C4_Witness ==
    /\ lastOp.op = "handleSubmit"
    /\ formData.firstName = " "
    /\ formData.lastName = "Bo"
    /\ "firstName" \in DOMAIN errors
    /\ errors["firstName"] = "FIRST NAME is required"
    /\ "lastName" \notin DOMAIN errors
    /\ network = <<>>

\* C9: selectOption(f, v) while the selector of f is open writes v to
\* formData[f], closes the selector and leaves no entry for f in the error map;
\* the other five values and the entries of the other fields stay as they were.
C9_SelectCommits ==
    [][\A f \in Keys : \A v \in Picked(f) :
          selectOption(f, v) =>
              /\ openModal = f
              /\ formData'[f] = v
              /\ openModal' = null
              /\ f \notin DOMAIN errors'
              /\ \A k \in Keys \ {f} :
                    /\ formData'[k] = formData[k]
                    /\ k \in DOMAIN errors' <=> k \in DOMAIN errors
                    /\ k \in DOMAIN errors => errors'[k] = errors[k]]_vars

\* a size picked after a failed submit: its own entry gone, the other one kept
C9_Witness ==
    /\ lastOp = [op |-> "selectOption", field |-> "shirtSize", was |-> "shirtSize"]
    /\ formData.shirtSize = "XS"
    /\ openModal = null
    /\ "shirtSize" \notin DOMAIN errors
    /\ "jacketSize" \in DOMAIN errors

\* v-if="openModal === '<field>'"
IsOpen(f) == openModal = f

\* C10: in every state at most one selector is open, the state being Closed or
\* Open(f) for one field f with a selector, and toggleModal(g) while another
\* field f is open gives Open(g), f no longer open.
C10_OneSelectorOpen ==
    /\ openModal \in {null} \cup Selectors(component)
    /\ Cardinality({f \in Keys : IsOpen(f)}) <= 1
    /\ (lastOp.op = "toggleModal" /\ lastOp.was \notin {null, lastOp.field}) =>
          /\ IsOpen(lastOp.field)
          /\ ~IsOpen(lastOp.was)

C10_Witness ==
    /\ lastOp = [op |-> "toggleModal", field |-> "jacketSize", was |-> "shirtSize"]
    /\ IsOpen("jacketSize")

----------------------------------------------------------------------------
(* The selector: toggling and dismissal *)

\* C11: toggleModal(f) from Closed gives Open(f) and from Open(f) gives Closed,
\* so a second toggleModal(f) right after one from Closed gives Closed again;
\* no toggle changes a field value or the error map.
C11_ToggleOpensAndCloses ==
    [][lastOp'.op = "toggleModal" =>
          /\ openModal = null => openModal' = lastOp'.field
          /\ openModal = lastOp'.field => openModal' = null
          /\ (lastOp.op = "toggleModal" /\ lastOp.was = null
                /\ lastOp'.field = lastOp.field) => openModal' = null
          /\ formData' = formData
          /\ errors' = errors]_vars

\* a selector toggled shut by its own button, the errors of a failed submit kept
C11_Witness ==
    /\ lastOp = [op |-> "toggleModal", field |-> "shirtSize", was |-> "shirtSize"]
    /\ openModal = null
    /\ "shirtSize" \in DOMAIN errors
    /\ formData.shirtSize = ""

\* C12: a click or touch on the backdrop itself and an Escape keydown close the
\* selector from every Open(f) and commit nothing (field values and error map
\* as before); a keydown of another key leaves the selector state as it is.
C12_DismissalCloses ==
    [][/\ handleBackdropClick(TRUE) =>
             /\ openModal' = null
             /\ formData' = formData /\ errors' = errors
       /\ lastOp'.op = "handleEscape" =>
             /\ openModal' = IF lastOp'.field = "Escape" THEN null ELSE openModal
             /\ formData' = formData /\ errors' = errors]_vars

\* Escape with the jacket selector open: closed, and no size committed
C12_Witness ==
    /\ lastOp = [op |-> "handleEscape", field |-> "Escape", was |-> "jacketSize"]
    /\ openModal = null
    /\ formData.jacketSize = ""

----------------------------------------------------------------------------
(* The registration of Jane Doe: the form driven with her details *)

ListedHospitals == {hospitalOptions[i] : i \in 1..Len(hospitalOptions)}

TypedJane(key) ==
    CASE key = "firstName" -> {"Jane"}
      [] key = "lastName"  -> {"Doe"}
      [] key = "email"     -> {"jane.doe@cedars.com", "jane.doe@gmail.com"}
      [] key = "hospital"  -> ListedHospitals

PickedJane(fieldName) ==
    CASE fieldName = "shirtSize"  -> {"M"}
      [] fieldName = "jacketSize" -> {"L"}
      [] fieldName = "hospital"   -> ListedHospitals

NextJane ==
    \/ showDataView /\ UNCHANGED <<twin, page>>
    \/ \E key \in TextInputs(component) : \E v \in TypedJane(key) :
          input(key, v) /\ UNCHANGED <<twin, page>>
    \/ \E fieldName \in Selectors(component) : toggleModal(fieldName) /\ UNCHANGED <<twin, page>>
    \/ \E fieldName \in Selectors(component) :
          \E value \in PickedJane(fieldName) : selectOption(fieldName, value) /\ UNCHANGED <<twin, page>>
    \/ \E onBackdrop \in BOOLEAN : handleBackdropClick(onBackdrop) /\ UNCHANGED <<twin, page>>
    \/ \E key \in PressedKeys : handleEscape(key) /\ UNCHANGED <<twin, page>>
    \/ handleSubmit /\ UNCHANGED <<twin, page>>
    \/ \E i \in 1..Len(network) : \E outcome \in Outcomes :
          fetchSettles(i, outcome) /\ UNCHANGED <<twin, page>>

SpecJane == Init /\ [][NextJane]_vars

JaneWith(email) ==
    /\ formData.firstName = "Jane"
    /\ formData.lastName = "Doe"
    /\ formData.hospital \in ListedHospitals
    /\ formData.email = email
    /\ formData.shirtSize = "M"
    /\ formData.jacketSize = "L"

PostIssued == \E i \in 1..Len(network) : network[i].method = "POST"

\* C13: from the initial form, once firstName "Jane", lastName "Doe", a listed
\* hospital, email "jane.doe@cedars.com", shirtSize "M" and jacketSize "L" are
\* entered, a submit leaves the error map empty, issues the form POST and
\* moves the view to completion (showdata false, showfinal true).
C13_JaneSucceeds ==
    (lastOp.op = "handleSubmit" /\ JaneWith("jane.doe@cedars.com")) =>
        /\ errors = NoErrors
        /\ PostIssued
        /\ ~store.showdata
        /\ store.showfinal

C13_Witness ==
    /\ lastOp.op = "handleSubmit"
    /\ JaneWith("jane.doe@cedars.com")
    /\ PostIssued
    /\ store.showfinal

\* C14: with the same inputs but email "jane.doe@gmail.com" the submit is
\* blocked: the error map has one entry, under email, 'Only cedars.com emails
\* are eligible'; no request is issued and showfinal stays false.
C14_GmailBlocked ==
    (lastOp.op = "handleSubmit" /\ JaneWith("jane.doe@gmail.com")) =>
        /\ DOMAIN errors = {"email"}
        /\ errors["email"] = "Only cedars.com emails are eligible"
        /\ network = <<>>
        /\ ~store.showfinal
        /\ store.showdata

C14_Witness ==
    /\ lastOp.op = "handleSubmit"
    /\ JaneWith("jane.doe@gmail.com")
    /\ DOMAIN errors = {"email"}
    /\ network = <<>>

----------------------------------------------------------------------------
(* The requests of a submit *)

Settled == {"fulfilled", "rejected"}

\* C15: the view transition is optimistic: the step that issues the POST has
\* already set showdata false and showfinal true while the POST is pending, the
\* completion view stays whatever becomes of the POST (fulfilled, rejected or
\* never settled), and the settling of a request changes neither showdata,
\* showfinal, the field values nor the error map.
C15_OptimisticTransition ==
    [][/\ Len(network') > Len(network) =>
             /\ network'[Len(network')].method = "POST"
             /\ network'[Len(network')].status = "pending"
       /\ PostIssued' => (~store'.showdata /\ store'.showfinal)
       /\ lastOp'.op = "fetchSettles" =>
             /\ store' = store
             /\ formData' = formData
             /\ errors' = errors]_vars

\* the POST rejected, the completion view still shown
C15_Witness ==
    /\ Len(network) = 2
    /\ network[2].method = "POST"
    /\ network[2].status = "rejected"
    /\ ~store.showdata
    /\ store.showfinal

PostBody(fd) ==
    { <<"FirstName", fd.firstName>>, <<"LastName", fd.lastName>>, <<"Email", fd.email>>,
      <<"Hospital", fd.hospital>>, <<"ShirtSize", fd.shirtSize>>,
      <<"JacketSize", fd.jacketSize>> }

Sent(r) == [method |-> r.method, url |-> r.url, body |-> r.body]

\* C17: a handleSubmit that passes validation issues one analytics GET, with
\* the query parameter type=submitbtn, and one form POST; afterwards no request
\* is sent again, removed or altered, and a settled request stays settled,
\* whatever its outcome.
C17_OneGetOnePost ==
    [][/\ (lastOp'.op = "handleSubmit" /\ AllValid) =>
             /\ Len(network') = Len(network) + 2
             /\ network'[Len(network) + 1].method = "GET"
             /\ endsWith(network'[Len(network) + 1].url, "?type=submitbtn")
             /\ network'[Len(network) + 2].method = "POST"
       /\ lastOp'.op # "handleSubmit" => Len(network') = Len(network)
       /\ Len(network') >= Len(network)
       /\ \A i \in 1..Len(network) :
             /\ Sent(network'[i]) = Sent(network[i])
             /\ network[i].status \in Settled => network'[i].status = network[i].status]_vars

\* both requests of the one submit rejected, and still two requests in all
C17_Witness ==
    /\ Len(network) = 2
    /\ network[1].method = "GET" /\ network[1].status = "rejected"
    /\ network[2].method = "POST" /\ network[2].status = "rejected"

----------------------------------------------------------------------------
(* The error map *)

\* C18: a step that edits the field f leaves no entry for f in the error map,
\* whether or not the new value passes validateField, and leaves the entries of
\* the other fields, the open selector and the store's flags as they were.
C18_EditClearsOwnError ==
    [][lastOp'.op = "input" =>
          /\ DOMAIN errors' = DOMAIN errors \ {lastOp'.field}
          /\ \A k \in DOMAIN errors' : errors'[k] = errors[k]
          /\ openModal' = openModal
          /\ store' = store]_vars

\* firstName edited to a value still invalid: its entry is gone, lastName's stays
C18_Witness ==
    /\ lastOp.op = "input"
    /\ lastOp.field = "firstName"
    /\ formData.firstName = "A"
    /\ "firstName" \notin DOMAIN errors
    /\ "lastName" \in DOMAIN errors

\* C19: right after a submit attempt the error map has an entry for a key
\* exactly when validateField, applied to the key's label and current value,
\* returns a non-empty message, and the entry is that message; nothing of the
\* map before the attempt remains for a field that is valid now.
C19_ErrorsRecomputed ==
    [][lastOp'.op = "handleSubmit" =>
          \A i \in 1..Len(fields) :
             LET k == fields[i].key
                 msg == validateField(component, fields[i].label, formData'[k])
             IN  /\ k \in DOMAIN errors' <=> msg # ""
                 /\ k \in DOMAIN errors' => errors'[k] = msg]_vars

\* a submit attempt with firstName valid and lastName not
C19_Witness ==
    /\ lastOp.op = "handleSubmit"
    /\ formData.firstName = "Al"
    /\ DOMAIN errors = {"lastName", "email"}
    /\ formData.lastName = ""
    /\ formData.email = "a@gmail.com"

\* C20: only a submit attempt adds or changes an entry of the error map: any
\* other step leaves each remaining entry as it was and adds none; and a submit
\* from a state with an empty map and a value that fails validateField sends
\* nothing and leaves the store's flags alone.
C20_OnlySubmitAddsErrors ==
    [][/\ lastOp'.op # "handleSubmit" =>
             \A k \in DOMAIN errors' : k \in DOMAIN errors /\ errors'[k] = errors[k]
       /\ (lastOp'.op = "handleSubmit" /\ errors = NoErrors /\ ~AllValid) =>
             /\ network' = network
             /\ store' = store
             /\ errors' # NoErrors]_vars

\* an invalid value just typed and the error map empty
C20_Witness ==
    /\ lastOp.op = "input"
    /\ lastOp.field = "email"
    /\ formData.email = "a@gmail.com"
    /\ errors = NoErrors
    /\ store.showdata

----------------------------------------------------------------------------
(* The values of the selector fields *)

SizeSet == {sizeOptions[i] : i \in 1..Len(sizeOptions)}

HospitalSet == {hospitalOptions[i] : i \in 1..Len(hospitalOptions)}

\* the value a POST carries under a name
Posted(r, name) == CHOOSE v \in {r.body[i][2] : i \in 1..Len(r.body)} :
                      \E i \in 1..Len(r.body) : r.body[i] = <<name, v>>

\* C21: in every state the user interface reaches, shirtSize and jacketSize
\* are each empty or one of the six sizeOptions, and with the hospital selector
\* (part_000) hospital is empty or one of the five hospitalOptions; every POST
\* carries a ShirtSize and a JacketSize of sizeOptions and, with the hospital
\* selector, a Hospital of hospitalOptions.
C21_SelectorValuesListed ==
    /\ formData.shirtSize \in {""} \cup SizeSet
    /\ formData.jacketSize \in {""} \cup SizeSet
    /\ component = "part000" => formData.hospital \in {""} \cup HospitalSet
    /\ \A i \in 1..Len(network) :
          network[i].method = "POST" =>
             /\ Posted(network[i], "ShirtSize") \in SizeSet
             /\ Posted(network[i], "JacketSize") \in SizeSet
             /\ component = "part000" => Posted(network[i], "Hospital") \in HospitalSet

\* a POST of the selector variant after the three selections
C21_Witness ==
    /\ component = "part000"
    /\ Len(network) = 2
    /\ Posted(network[2], "Hospital") = hospitalOptions[2]
    /\ Posted(network[2], "ShirtSize") = sizeOptions[1]
    /\ formData.jacketSize = sizeOptions[1]

----------------------------------------------------------------------------
(* The two variants side by side: the data.vue form in the variables, the   *)
(* part_000 form in twin, both given the same user input                    *)

\* part_000's handlers as functions of the form's state
twinShowDataView(t) == [t EXCEPT !.store.showhome = FALSE, !.store.showdata = TRUE]

twinInput(t, key, v) ==
    [t EXCEPT !.formData[key] = v, !.errors = handleInput(t.errors, key)]

twinToggleModal(t, fieldName) ==
    [t EXCEPT !.openModal = IF t.openModal = fieldName THEN null ELSE fieldName]

twinSelectOption(t, fieldName, value) ==
    [t EXCEPT !.formData[fieldName] = value,
              !.openModal = null,
              !.errors = handleInput(t.errors, fieldName)]

twinHandleBackdropClick(t, onBackdrop) ==
    [t EXCEPT !.openModal = IF onBackdrop THEN closeModal ELSE t.openModal]

twinHandleEscape(t, key) ==
    [t EXCEPT !.openModal = IF key = "Escape" THEN closeModal ELSE t.openModal]

twinHandleSubmit(t) ==
    LET v == validateForm("part000", t.formData)
        fd == t.formData
    IN  IF v.isValid
        THEN [t EXCEPT !.errors = v.errors,
                       !.store.showdata = FALSE,
                       !.store.showfinal = TRUE,
                       !.network = t.network \o
                          << sendAnalyticsData("submitbtn"),
                             sendFormData(fd.firstName, fd.lastName, fd.email,
                                          fd.hospital, fd.shirtSize, fd.jacketSize) >>]
        ELSE [t EXCEPT !.errors = v.errors]

\* the fields both variants take from a text input, and from a selector
SharedInputs == TextInputs("data") \cap TextInputs("part000")

SharedSelectors == Selectors("data") \cap Selectors("part000")

\* the same user input given to both forms
pairShowDataView ==
    /\ call = NoCall
    /\ twin.store.showhome
    /\ showDataView
    /\ twin' = twinShowDataView(twin)
    /\ UNCHANGED page

pairInput(key, v) ==
    /\ twin.store.showdata
    /\ input(key, v)
    /\ twin' = twinInput(twin, key, v)
    /\ UNCHANGED page

\* the hospital set to a listed name: typed into data.vue's input, picked in
\* part_000's selector (the selector opened, then the option clicked)
pairSetHospital(value) ==
    /\ twin.store.showdata
    /\ input("hospital", value)
    /\ twin' = twinSelectOption(twinToggleModal(twin, "hospital"), "hospital", value)
    /\ UNCHANGED page

pairToggleModal(fieldName) ==
    /\ twin.store.showdata
    /\ toggleModal(fieldName)
    /\ twin' = twinToggleModal(twin, fieldName)
    /\ UNCHANGED page

\* the option buttons of a selector are rendered while it is the open one
pairSelectOption(fieldName, value) ==
    /\ twin.store.showdata
    /\ twin.openModal = fieldName
    /\ selectOption(fieldName, value)
    /\ twin' = twinSelectOption(twin, fieldName, value)
    /\ UNCHANGED page

pairHandleBackdropClick(onBackdrop) ==
    /\ twin.store.showdata
    /\ twin.openModal # null
    /\ handleBackdropClick(onBackdrop)
    /\ twin' = twinHandleBackdropClick(twin, onBackdrop)
    /\ UNCHANGED page

pairHandleEscape(key) ==
    /\ twin.store.showdata
    /\ handleEscape(key)
    /\ twin' = twinHandleEscape(twin, key)
    /\ UNCHANGED page

pairHandleSubmit ==
    /\ twin.store.showdata
    /\ handleSubmit
    /\ twin' = twinHandleSubmit(twin)
    /\ UNCHANGED page

\* validateField of both variants called with the same arguments
pairValidateFieldCall ==
    /\ validateFieldCall
    /\ twin' = [twin EXCEPT !.error = validateField("part000", call.fieldName, call.value)]
    /\ UNCHANGED page

InitPair ==
    /\ component = "data"
    /\ InitForm
    /\ call \in {NoCall} \cup
                [fieldName : Labels, value : Strings, returned : {FALSE}, error : {""}]

NextPair ==
    \/ pairShowDataView
    \/ \E key \in SharedInputs : \E v \in Typed(key) : pairInput(key, v)
    \/ \E value \in Picked("hospital") : pairSetHospital(value)
    \/ \E fieldName \in SharedSelectors : pairToggleModal(fieldName)
    \/ \E fieldName \in SharedSelectors :
          \E value \in Picked(fieldName) : pairSelectOption(fieldName, value)
    \/ \E onBackdrop \in BOOLEAN : pairHandleBackdropClick(onBackdrop)
    \/ \E key \in PressedKeys : pairHandleEscape(key)
    \/ pairHandleSubmit
    \/ pairValidateFieldCall

SpecPair == InitPair /\ [][NextPair]_vars

\* the hospital has just been set, in both forms
HospitalSet_step == lastOp'.op = "input" /\ lastOp'.field = "hospital"

\* C22 as stated: validateField of the two variants returns the same result for
\* every label other than HOSPITAL and every value, and after the same user
\* input with a listed hospital the two forms have the same error map, the
\* same selector state and the same view flags.
C22_VariantsAgree ==
    /\ (call.returned /\ call.fieldName # HospitalLabel) => twin.error = call.error
    /\ twin.errors = errors
    /\ twin.openModal = openModal
    /\ twin.store = store

\* C22, amended: validateField of the two variants returns the same result for
\* every label other than HOSPITAL and every value, and after the same user
\* input with a listed hospital the two forms have the same field values, error
\* map and view flags and have sent the same requests; their selector states,
\* once equal, stay equal except where the hospital is set while a selector is
\* open: picking the hospital closes it in part_000, typing the hospital leaves
\* it open in data.vue.
C22_VariantsAgreeButSelector ==
    [][/\ (call'.returned /\ call'.fieldName # HospitalLabel) => twin'.error = call'.error
       /\ twin'.formData = formData'
       /\ twin'.errors = errors'
       /\ twin'.store = store'
       /\ twin'.network = network'
       /\ IF HospitalSet_step /\ openModal # null
          THEN twin'.openModal = null /\ openModal' = openModal
          ELSE twin.openModal = openModal => twin'.openModal = openModal']_vars

\* a submit that both forms reject for the email alone, the hospital listed
C22_Witness ==
    /\ lastOp.op = "handleSubmit"
    /\ formData.hospital = hospitalOptions[2]
    /\ twin.formData.hospital = hospitalOptions[2]
    /\ DOMAIN errors = {"email"}
    /\ twin.errors = errors
    /\ twin.store = store

----------------------------------------------------------------------------
(* The scroll lock of main.ts *)

\* how far an element is scrolled at most
MaxScroll == 2

\* what an event's target is: a form control, an element of a list with the
\* class dropdown-scrollbar, the document, or any other element
Targets == {"input", "button", "dropdown", "document", "other"}

isInsideDropdown(element) == element = "dropdown"

\* preventScroll: whether the wheel event's default action is prevented
preventScroll(target) ==
    IF target \in {"input", "button"} THEN FALSE
    ELSE IF isInsideDropdown(target) THEN FALSE
    ELSE TRUE

PageOffsets == {"scrollY", "documentElement", "body"}

Ran(p, name, target) ==
    [p EXCEPT !.last = name, !.target = target,
              !.was = \E el \in PageOffsets : page[el] # 0]

\* a lockScroll that leaves document.body as it is
lockScroll_notBody(p) == [p EXCEPT !.scrollY = 0, !.documentElement = 0]

\* lockScroll: scrollTo(0, 0) and the two scrollTop assignments
lockScroll(p) == [p EXCEPT !.scrollY = 0, !.documentElement = 0, !.body = 0]

\* the document's scroll listener
scrollListener(p, target) ==
    IF isInsideDropdown(target) THEN p
    ELSE [p EXCEPT !.scrollY = 0, !.documentElement = 0, !.body = 0]

\* the callback of setInterval(..., 100)
intervalCallback(p) ==
    IF p.scrollY # 0 \/ p.documentElement # 0 \/ p.body # 0 THEN lockScroll(p) ELSE p

formVars == <<component, formData, errors, openModal, store, network, trace, lastOp, call, twin>>

\* a wheel event: unless preventScroll prevents it, the list under the pointer
\* scrolls, or else the page
wheel(target, offset) ==
    /\ page' = Ran(IF preventScroll(target) THEN page
                   ELSE IF isInsideDropdown(target) THEN [page EXCEPT !.dropdown = offset]
                   ELSE [page EXCEPT !.scrollY = offset],
                   "wheel", target)
    /\ UNCHANGED formVars

\* the browser scrolls on its own account (a focused input brought into view,
\* a fragment, script): any of the three page offsets may move
scrolls(el, offset) ==
    /\ page' = Ran([page EXCEPT ![el] = offset], "scrolls", el)
    /\ UNCHANGED formVars

scroll(target) ==
    /\ page' = Ran(scrollListener(page, target), "scroll", target)
    /\ UNCHANGED formVars

\* load, resize and orientationchange all run lockScroll
windowEvent(type) ==
    /\ page' = Ran(lockScroll(page), type, "window")
    /\ UNCHANGED formVars

tick ==
    /\ page' = Ran(intervalCallback(page), "tick", "")
    /\ UNCHANGED formVars

WindowEvents == {"load", "resize", "orientationchange"}

NextScroll ==
    \/ \E target \in Targets : \E offset \in 0..MaxScroll : wheel(target, offset)
    \/ \E el \in PageOffsets : \E offset \in 0..MaxScroll : scrolls(el, offset)
    \/ \E target \in Targets : scroll(target)
    \/ \E type \in WindowEvents : windowEvent(type)
    \/ tick

\* the interval timer keeps firing for as long as the page lives
SpecScroll == Init /\ [][NextScroll]_vars /\ WF_vars(tick)

PageAtTop == \A el \in PageOffsets : page[el] = 0

\* C23: the scroll lock keeps the page at offset 0: a tick of the interval
\* timer leaves scrollY, documentElement.scrollTop and body.scrollTop at 0, and
\* so do a scroll event whose target is not inside a dropdown and the load,
\* resize and orientationchange events; whenever one of the three offsets is
\* non-zero, all three are 0 again later.
C23_ScrollLocked ==
    /\ [][/\ page'.last = "tick" => PageAtTop'
          /\ (page'.last = "scroll" /\ ~isInsideDropdown(page'.target)) => PageAtTop'
          /\ page'.last \in WindowEvents => PageAtTop']_vars
    /\ (~PageAtTop ~> PageAtTop)

\* a tick that found the page scrolled and reset it, the list's own scroll kept
C23_Witness ==
    /\ page.last = "tick"
    /\ page.was
    /\ PageAtTop
    /\ page.dropdown = MaxScroll

====
